---- MODULE Spec2Model ----
(***************************************************************************)
(* Model of action-semver-release (src/src/index.js): the commit parser    *)
(* of getCommitsSinceDate, calculateNextVersion, generateReleaseNotes and  *)
(* run.  The model follows the module that ends at line 292 of index.js,   *)
(* the one that exports these functions; the lines after it are an earlier *)
(* run that parses nothing and renders no notes.                           *)
(*                                                                         *)
(* A version is MAJOR.MINOR.PATCH, with or without a leading "v", or a     *)
(* string that semver rejects; versions with a pre-release or build suffix *)
(* are not in the version domain.                                          *)
(*                                                                         *)
(* A JavaScript string is a sequence of tokens.  A token is one character  *)
(* ("(", ")", "!", ":", " ", "\n"), a run of \w characters ("feat", "x",   *)
(* ...) or the literal text BREAKING CHANGE ("BC"), which holds a space    *)
(* and so is neither a \w run nor white space.  Absent values (null,       *)
(* undefined, "not yet computed") are the empty sequence and a present     *)
(* value v is <<v>>.                                                       *)
(***************************************************************************)
EXTENDS Integers, Sequences, FiniteSets, TLC

VARIABLES
    rawCommit,      \* the commit handed to the parser callback: [sha, message]
    parsed,         \* <<record>> once the callback has returned, else <<>>
    parsedCommits,  \* the list handed to calculateNextVersion / generateReleaseNotes
    currentVersion, \* the version handed to calculateNextVersion
    nextVersion,    \* <<version>> once calculateNextVersion has returned
    releaseNotes,   \* <<result>> once generateReleaseNotes has returned
    pc,             \* the position of run
    latestRelease,  \* what octokit.rest.repos.getLatestRelease answers
    listCommits,    \* what octokit.rest.repos.listCommits answers
    defaultVersionInput, \* core.getInput('default-version'): <<>> when not set
    currentReleaseDate,  \* run's local, <<date>> once the lookup has returned
    currentReleaseTag,   \* run's local, <<version>> once the lookup has returned
    shouldRelease,  \* run's local, <<boolean>> once computed
    outputs,        \* the outputs set with core.setOutput
    failed,         \* <<message>> once core.setFailed was called
    calls,          \* the invocations of the two functions made so far, in order
    relPc,          \* the position of the release action (composite steps or main)
    actionInputs,   \* the release action's inputs: [dry_run, draft]
    svu,            \* what `svu current` and `svu next` answer: [current, next]
    gitLog,         \* what `git log` answers: the notes text
    createAnswer,   \* what creating the release answers: "ok" or "error"
    env,            \* the composite action's GITHUB_ENV entries, main's locals
    stepOutputs,    \* the release_url written by the two steps that write it
    releases        \* the GitHub releases created, in order

parseVars == <<rawCommit, parsed>>
coreVars == <<parsedCommits, currentVersion, nextVersion, releaseNotes>>
runVars == <<pc, latestRelease, listCommits, defaultVersionInput, currentReleaseDate,
             currentReleaseTag, shouldRelease, outputs, failed>>
releaseVars == <<relPc, actionInputs, svu, gitLog, createAnswer, env, stepOutputs, releases>>
vars == <<parseVars, coreVars, runVars, calls, releaseVars>>

(***************************************************************************)
(* Bounds                                                                  *)
(***************************************************************************)
MaxMsgLen == 5

NoOutputs == [next_version |-> <<>>, should_release |-> <<>>, release_notes |-> <<>>]

NoEnv == [RELEASE_TAG |-> <<>>, CURRENT_VERSION |-> <<>>, NO_CHANGES |-> "", RELEASE_NOTES |-> <<>>]
NoStepOutputs == [create_release |-> <<>>, dry_run_summary |-> <<>>]

\* the release action is not executing
NoRelease ==
    /\ relPc = "idle"
    /\ actionInputs = [dry_run |-> "", draft |-> ""]
    /\ svu = [current |-> <<>>, next |-> <<>>]
    /\ gitLog = <<>>
    /\ createAnswer = ""
    /\ env = NoEnv
    /\ stepOutputs = NoStepOutputs
    /\ releases = <<>>

\* run is not executing: the functions are called on their own
NoRun ==
    /\ pc = "idle"
    /\ latestRelease = <<>>
    /\ listCommits = <<>>
    /\ defaultVersionInput = <<>>
    /\ currentReleaseDate = <<>>
    /\ currentReleaseTag = <<>>
    /\ shouldRelease = <<>>
    /\ outputs = NoOutputs
    /\ failed = <<>>
    /\ calls = <<>>
    /\ NoRelease

(***************************************************************************)
(* Strings                                                                 *)
(***************************************************************************)
NL == "\n"
BC == "BC"
WordTokens == {"feat", "fix", "perf", "docs", "build", "ci", "test", "refactor",
               "style", "chore", "other", "breaking", "deps", "constructor",
               "toString", "x"}

IsWord(t) == t \in WordTokens
IsSpace(t) == t \in {" ", NL}

Min(a, b) == IF a < b THEN a ELSE b

\* s.slice(n): the string from the (1-based) position n on
Drop(s, n) == SubSeq(s, n, Len(s))

\* s.indexOf(t), 1-based; 0 when t does not occur
IndexOf(s, t) ==
    IF \E i \in 1..Len(s) : s[i] = t
    THEN CHOOSE i \in 1..Len(s) : s[i] = t /\ \A j \in 1..(i - 1) : s[j] # t
    ELSE 0

\* message.includes(t)
Includes(s, t) == \E i \in 1..Len(s) : s[i] = t

\* the length of the longest prefix of s whose tokens all satisfy the class
WordPrefixLen(s) ==
    IF \E i \in 1..Len(s) : ~IsWord(s[i])
    THEN (CHOOSE i \in 1..Len(s) : ~IsWord(s[i]) /\ \A j \in 1..(i - 1) : IsWord(s[j])) - 1
    ELSE Len(s)

SpacePrefixLen(s) ==
    IF \E i \in 1..Len(s) : ~IsSpace(s[i])
    THEN (CHOOSE i \in 1..Len(s) : ~IsSpace(s[i]) /\ \A j \in 1..(i - 1) : IsSpace(s[j])) - 1
    ELSE Len(s)

SpaceSuffixLen(s) ==
    IF \E i \in 1..Len(s) : ~IsSpace(s[i])
    THEN Len(s) - (CHOOSE i \in 1..Len(s) : ~IsSpace(s[i]) /\ \A j \in (i + 1)..Len(s) : IsSpace(s[j]))
    ELSE Len(s)

\* String.prototype.trim
Trim(s) ==
    IF SpacePrefixLen(s) = Len(s) THEN <<>>
    ELSE SubSeq(s, SpacePrefixLen(s) + 1, Len(s) - SpaceSuffixLen(s))

\* message.split('\n')[0]
FirstLine(message) ==
    IF IndexOf(message, NL) = 0 THEN message
    ELSE SubSeq(message, 1, IndexOf(message, NL) - 1)

\* message.split('\n').slice(1).join('\n').trim()
Body(message) ==
    IF IndexOf(message, NL) = 0 THEN <<>>
    ELSE Trim(Drop(message, IndexOf(message, NL) + 1))

\* commit.sha.substring(0, 7)
ShaWidth == 7
ShortSha(sha) == SubSeq(sha, 1, Min(ShaWidth, Len(sha)))

(***************************************************************************)
(* The header pattern /^(\w+)(\(([^)]+)\))?(!)?:\s*(.+)$/ applied to the   *)
(* first line.  Every quantifier's choice is forced by the token that must *)
(* follow it, so the match is computed left to right.                      *)
(***************************************************************************)
NoMatch == [matched |-> FALSE, type |-> <<>>, scope |-> <<>>, bang |-> FALSE, description |-> <<>>]

\* group 5 of the pattern on the text after the colon: \s*(.+)$
DescriptionOf(rest) ==
    IF SpacePrefixLen(rest) < Len(rest) THEN Drop(rest, SpacePrefixLen(rest) + 1)
    ELSE Drop(rest, Len(rest))

\* MatchTail as it would be if group 4 were never read: the "!" is consumed
\* but not reported
MatchTail_IgnoreBang(type, scope, rest) ==
    LET bang == Len(rest) >= 1 /\ rest[1] = "!"
        r2   == IF bang THEN Drop(rest, 2) ELSE rest
    IN  IF Len(r2) >= 2 /\ r2[1] = ":"
        THEN [matched |-> TRUE, type |-> type, scope |-> scope, bang |-> FALSE,
              description |-> DescriptionOf(Drop(r2, 2))]
        ELSE NoMatch

\* from the optional "!" on: (!)?:\s*(.+)$
MatchTail(type, scope, rest) ==
    LET bang == Len(rest) >= 1 /\ rest[1] = "!"
        r2   == IF bang THEN Drop(rest, 2) ELSE rest
    IN  IF Len(r2) >= 2 /\ r2[1] = ":"
        THEN [matched |-> TRUE, type |-> type, scope |-> scope, bang |-> bang,
              description |-> DescriptionOf(Drop(r2, 2))]
        ELSE NoMatch

\* conventionalCommitRegex as it would be if group 2, the scope with its
\* parentheses, were read instead of group 3
conventionalCommitRegex_ScopeWithParentheses(firstLine) ==
    LET w    == WordPrefixLen(firstLine)
        type == SubSeq(firstLine, 1, w)
        r1   == Drop(firstLine, w + 1)
        close == IndexOf(r1, ")")
    IN  IF w = 0 THEN NoMatch
        ELSE IF Len(r1) >= 1 /\ r1[1] = "("
             THEN IF close >= 3
                  THEN MatchTail(type, SubSeq(r1, 1, close), Drop(r1, close + 1))
                  ELSE NoMatch
             ELSE MatchTail(type, <<>>, r1)

conventionalCommitRegex(firstLine) ==
    LET w    == WordPrefixLen(firstLine)
        type == SubSeq(firstLine, 1, w)
        r1   == Drop(firstLine, w + 1)
        close == IndexOf(r1, ")")
    IN  IF w = 0 THEN NoMatch
        ELSE IF Len(r1) >= 1 /\ r1[1] = "("
             THEN IF close >= 3
                  THEN MatchTail(type, SubSeq(r1, 2, close - 1), Drop(r1, close + 1))
                  ELSE NoMatch
             ELSE MatchTail(type, <<>>, r1)

\* ParseCommit as it would be if the marker were looked for in the body only
ParseCommit_MarkerInBodyOnly(commit) ==
    LET message   == commit.message
        firstLine == FirstLine(message)
        match     == conventionalCommitRegex(firstLine)
        hasBreakingChangeInBody == Includes(Body(message), BC)
    IN  [sha         |-> ShortSha(commit.sha),
         type        |-> IF match.matched THEN match.type ELSE <<"other">>,
         scope       |-> IF match.matched THEN match.scope ELSE <<>>,
         description |-> IF match.matched THEN match.description ELSE firstLine,
         body        |-> Body(message),
         isBreaking  |-> IF hasBreakingChangeInBody THEN TRUE
                         ELSE IF match.matched THEN match.bang ELSE FALSE,
         fullMessage |-> message]

(***************************************************************************)
(* The callback of commits.map in getCommitsSinceDate                      *)
(***************************************************************************)
\* ParseCommit as it would be if a line that does not match kept its first
\* word as type and lost it from the description
ParseCommit_FirstWordIsType(commit) ==
    LET message   == commit.message
        firstLine == FirstLine(message)
        match     == conventionalCommitRegex(firstLine)
        w         == WordPrefixLen(firstLine)
        hasBreakingChangeInBody == Includes(message, BC)
    IN  [sha         |-> ShortSha(commit.sha),
         type        |-> IF match.matched THEN match.type
                         ELSE IF w > 0 THEN SubSeq(firstLine, 1, w) ELSE <<"other">>,
         scope       |-> IF match.matched THEN match.scope ELSE <<>>,
         description |-> IF match.matched THEN match.description ELSE Drop(firstLine, w + 1),
         body        |-> Body(message),
         isBreaking  |-> IF hasBreakingChangeInBody THEN TRUE
                         ELSE IF match.matched THEN match.bang ELSE FALSE,
         fullMessage |-> message]

ParseCommit(commit) ==
    LET message   == commit.message
        firstLine == FirstLine(message)
        match     == conventionalCommitRegex(firstLine)
        hasBreakingChangeInBody == Includes(message, BC)
    IN  [sha         |-> ShortSha(commit.sha),
         type        |-> IF match.matched THEN match.type ELSE <<"other">>,
         scope       |-> IF match.matched THEN match.scope ELSE <<>>,
         description |-> IF match.matched THEN match.description ELSE firstLine,
         body        |-> Body(message),
         isBreaking  |-> IF hasBreakingChangeInBody THEN TRUE
                         ELSE IF match.matched THEN match.bang ELSE FALSE,
         fullMessage |-> message]

(***************************************************************************)
(* Specification of the parser: one raw commit, any message of at most     *)
(* MaxMsgLen tokens.                                                       *)
(***************************************************************************)
ParseAlphabet == {"fix", "x", "(", ")", "!", ":", " ", NL, BC}

\* longer messages put together from the parts of a header: identifier,
\* scope in parentheses, "!", colon, whitespace, description, body
HeaderMessages ==
    {type \o scope \o bang \o colon \o gap \o text \o body :
        type \in {<<"fix">>, <<"x">>},
        scope \in {<<>>, <<"(", "x", ")">>, <<"(", "x", "/", "x", ")">>, <<"(", "x", ":", ")">>,
                   <<"(", ")">>},
        bang \in {<<>>, <<"!">>},
        colon \in {<<":">>, <<>>},
        gap \in {<<>>, <<" ">>},
        text \in {<<>>, <<"x">>, <<"x", " ", BC>>},
        body \in {<<>>, <<NL, NL, BC>>}}

Messages == UNION {[1..n -> ParseAlphabet] : n \in 0..MaxMsgLen} \cup HeaderMessages

FullSha == <<"a", "b", "c", "d", "e", "f", "0", "1", "2">>

InitParse ==
    /\ rawCommit \in {[sha |-> FullSha, message |-> m] : m \in Messages}
    /\ parsed = <<>>
    /\ parsedCommits = <<>>
    /\ currentVersion = <<>>
    /\ nextVersion = <<>>
    /\ releaseNotes = <<>>
    /\ NoRun

Parse ==
    /\ parsed = <<>>
    /\ parsed' = <<ParseCommit(rawCommit)>>
    /\ UNCHANGED <<calls, releaseVars, rawCommit, coreVars, runVars>>

NextParse == Parse

SpecParse == InitParse /\ [][NextParse]_vars

(***************************************************************************)
(* Properties of the parser                                                *)
(***************************************************************************)
\* identifier, optionally followed by "(" scope ")"
IsTypeAndScope(p) ==
    \E w \in 1..Len(p) :
        /\ \A j \in 1..w : IsWord(p[j])
        /\ \/ w = Len(p)
           \/ /\ Len(p) >= w + 3
              /\ p[w + 1] = "("
              /\ p[Len(p)] = ")"
              /\ \A j \in (w + 2)..(Len(p) - 1) : p[j] # ")"

\* the line is a conventional header with the "!" marker:
\* type(scope)!: description or type!: description
HeaderHasBang(line) ==
    \E i \in 2..(Len(line) - 2) :
        /\ line[i] = "!"
        /\ line[i + 1] = ":"
        /\ IsTypeAndScope(SubSeq(line, 1, i - 1))

Parsed == parsed # <<>>

\* the text after the first line
AfterFirstLine(message) ==
    IF IndexOf(message, NL) = 0 THEN <<>> ELSE Drop(message, IndexOf(message, NL) + 1)

MaxVer == 1
MaxCommits == 3
MaxNoteCommits == 2
MaxRunCommits == 2

SemVer(v, major, minor, patch) ==
    [kind |-> "semver", v |-> v, major |-> major, minor |-> minor, patch |-> patch]
Garbage == [kind |-> "garbage", v |-> FALSE, major |-> 0, minor |-> 0, patch |-> 0]
Null    == [kind |-> "null", v |-> FALSE, major |-> 0, minor |-> 0, patch |-> 0]

\* semver.inc(version, release): null when the string does not parse, else
\* the incremented version formatted without prefix
SemverInc(version, release) ==
    IF version.kind # "semver" THEN Null
    ELSE IF release = "major" THEN SemVer(FALSE, version.major + 1, 0, 0)
    ELSE IF release = "minor" THEN SemVer(FALSE, version.major, version.minor + 1, 0)
    ELSE SemVer(FALSE, version.major, version.minor, version.patch + 1)

(***************************************************************************)
(* calculateNextVersion                                                    *)
(***************************************************************************)
NoBump == [shouldBumpMajor |-> FALSE, shouldBumpMinor |-> FALSE, shouldBumpPatch |-> FALSE]

\* ScanCommit as it would be if only feat and fix commits could be breaking
ScanCommit_BreakingOnlyForFeatFix(flags, commit) ==
    IF commit.isBreaking /\ commit.type \in {<<"feat">>, <<"fix">>}
    THEN [flags EXCEPT !.shouldBumpMajor = TRUE]
    ELSE IF commit.type = <<"feat">> THEN [flags EXCEPT !.shouldBumpMinor = TRUE]
    ELSE IF commit.type = <<"fix">> THEN [flags EXCEPT !.shouldBumpPatch = TRUE]
    ELSE flags

\* ScanCommit as it would be if each commit overwrote the flags of the
\* commits before it
ScanCommit_Overwrite(flags, commit) ==
    IF commit.isBreaking THEN [NoBump EXCEPT !.shouldBumpMajor = TRUE]
    ELSE IF commit.type = <<"feat">> THEN [NoBump EXCEPT !.shouldBumpMinor = TRUE]
    ELSE IF commit.type = <<"fix">> THEN [NoBump EXCEPT !.shouldBumpPatch = TRUE]
    ELSE NoBump

\* the body of the for loop, for one commit
ScanCommit(flags, commit) ==
    IF commit.isBreaking THEN [flags EXCEPT !.shouldBumpMajor = TRUE]
    ELSE IF commit.type = <<"feat">> THEN [flags EXCEPT !.shouldBumpMinor = TRUE]
    ELSE IF commit.type = <<"fix">> THEN [flags EXCEPT !.shouldBumpPatch = TRUE]
    ELSE flags

RECURSIVE ScanCommits(_, _)
ScanCommits(flags, commits) ==
    IF commits = <<>> THEN flags
    ELSE ScanCommits(ScanCommit(flags, Head(commits)), Tail(commits))

\* calculateNextVersion as it would be if the three flags were applied one
\* after the other instead of the highest alone
calculateNextVersion_Accumulate(commits, version) ==
    LET flags == ScanCommits(NoBump, commits)
        v1 == IF flags.shouldBumpMajor THEN SemverInc(version, "major") ELSE version
        v2 == IF flags.shouldBumpMinor THEN SemverInc(v1, "minor") ELSE v1
    IN  IF flags.shouldBumpPatch THEN SemverInc(v2, "patch") ELSE v2

\* calculateNextVersion as it would be if every fix commit bumped the patch
calculateNextVersion_CountFixes(commits, version) ==
    LET flags == ScanCommits(NoBump, commits)
        fixes == Len(SelectSeq(commits, LAMBDA c : c.type = <<"fix">>))
    IN  IF flags.shouldBumpMajor THEN SemverInc(version, "major")
        ELSE IF flags.shouldBumpMinor THEN SemverInc(version, "minor")
        ELSE IF flags.shouldBumpPatch
             THEN [SemverInc(version, "patch") EXCEPT !.patch = version.patch + fixes]
        ELSE version

\* calculateNextVersion as it would be if the patch bump were the default
calculateNextVersion_PatchByDefault(commits, version) ==
    LET flags == ScanCommits(NoBump, commits)
    IN  IF flags.shouldBumpMajor THEN SemverInc(version, "major")
        ELSE IF flags.shouldBumpMinor THEN SemverInc(version, "minor")
        ELSE SemverInc(version, "patch")

calculateNextVersion(commits, version) ==
    LET flags == ScanCommits(NoBump, commits)
    IN  IF flags.shouldBumpMajor THEN SemverInc(version, "major")
        ELSE IF flags.shouldBumpMinor THEN SemverInc(version, "minor")
        ELSE IF flags.shouldBumpPatch THEN SemverInc(version, "patch")
        ELSE version

(***************************************************************************)
(* Specification of calculateNextVersion called on its own: any list of    *)
(* at most MaxCommits commit records and any version string.               *)
(***************************************************************************)
CalcTypes == {<<"feat">>, <<"fix">>, <<"chore">>, <<"other">>, <<"deps">>}

CalcCommits ==
    {[sha |-> <<"c">>, type |-> t, scope |-> <<>>, description |-> <<"x">>,
      body |-> <<>>, isBreaking |-> b, fullMessage |-> <<>>] :
        t \in CalcTypes, b \in BOOLEAN}

ListsOf(S, n) == UNION {[1..k -> S] : k \in 0..n}

Versions ==
    {SemVer(v, a, b, c) : v \in BOOLEAN, a \in 0..MaxVer, b \in 0..MaxVer, c \in 0..MaxVer}
        \cup {Garbage}

InitCalc ==
    /\ rawCommit = <<>>
    /\ parsed = <<>>
    /\ parsedCommits \in ListsOf(CalcCommits, MaxCommits)
    /\ currentVersion \in {<<v>> : v \in Versions}
    /\ nextVersion = <<>>
    /\ releaseNotes = <<>>
    /\ NoRun

CalculateNextVersion ==
    /\ pc = "idle"
    /\ nextVersion = <<>>
    /\ nextVersion' = <<calculateNextVersion(parsedCommits, currentVersion[1])>>
    /\ UNCHANGED <<calls, releaseVars, parseVars, parsedCommits, currentVersion, releaseNotes, runVars>>

NextCalc == CalculateNextVersion

SpecCalc == InitCalc /\ [][NextCalc]_vars

\* The inputs and the result of the call, once it has returned
Called == nextVersion # <<>>
cur == currentVersion[1]
nxt == nextVersion[1]
AnyBreaking == \E i \in 1..Len(parsedCommits) : parsedCommits[i].isBreaking
AnyOfType(t) == \E i \in 1..Len(parsedCommits) : parsedCommits[i].type = t
Triple(version) == <<version.major, version.minor, version.patch>>

\* C1: a list holding at least one breaking commit, of any type and with any
\* other commits around it, takes any version (major, minor, patch) to
\* (major + 1, 0, 0).
C1_BreakingBumpsMajor ==
    (Called /\ cur.kind = "semver" /\ AnyBreaking)
        => (nxt.kind = "semver" /\ Triple(nxt) = <<cur.major + 1, 0, 0>>)

C1_Witness ==
    /\ Called /\ cur.kind = "semver" /\ cur.minor = 1 /\ cur.patch = 1
    /\ Len(parsedCommits) = 3
    /\ parsedCommits[1].type = <<"feat">> /\ ~parsedCommits[1].isBreaking
    /\ parsedCommits[2].type = <<"chore">> /\ parsedCommits[2].isBreaking
    /\ parsedCommits[3].type = <<"fix">> /\ ~parsedCommits[3].isBreaking
    /\ Triple(nxt) = <<cur.major + 1, 0, 0>>

\* C2: with no breaking commit and at least one feat commit the version
\* becomes (major, minor + 1, 0), however many feat and fix commits there are.
C2_FeatBumpsMinorOnce ==
    (Called /\ cur.kind = "semver" /\ ~AnyBreaking /\ AnyOfType(<<"feat">>))
        => (nxt.kind = "semver" /\ Triple(nxt) = <<cur.major, cur.minor + 1, 0>>)

C2_Witness ==
    /\ Called /\ cur.kind = "semver" /\ cur.patch = 1
    /\ Len(parsedCommits) = 3 /\ ~AnyBreaking
    /\ parsedCommits[1].type = <<"feat">>
    /\ parsedCommits[2].type = <<"fix">>
    /\ parsedCommits[3].type = <<"feat">>
    /\ Triple(nxt) = <<cur.major, cur.minor + 1, 0>>

\* C3: with no breaking and no feat commit and at least one fix commit the
\* version becomes (major, minor, patch + 1), however many fix and
\* version-neutral commits there are.
C3_FixBumpsPatchOnce ==
    (Called /\ cur.kind = "semver" /\ ~AnyBreaking /\ ~AnyOfType(<<"feat">>)
        /\ AnyOfType(<<"fix">>))
        => (nxt.kind = "semver" /\ Triple(nxt) = <<cur.major, cur.minor, cur.patch + 1>>)

C3_Witness ==
    /\ Called /\ cur.kind = "semver" /\ cur.patch = 1
    /\ Len(parsedCommits) = 3 /\ ~AnyBreaking
    /\ parsedCommits[1].type = <<"fix">>
    /\ parsedCommits[2].type = <<"deps">>
    /\ parsedCommits[3].type = <<"fix">>
    /\ Triple(nxt) = <<cur.major, cur.minor, 2>>

(***************************************************************************)
(* generateReleaseNotes.  The document is a string; the titles are kept    *)
(* without their emoji.                                                    *)
(***************************************************************************)
\* the keys of commitTypes, in the order of the object literal
commitTypes ==
    <<"breaking", "feat", "fix", "perf", "docs", "build", "ci", "test",
      "refactor", "style", "chore", "other">>

Title(key) ==
    CASE key = "breaking" -> "## Breaking Changes"
      [] key = "feat"     -> "## New Features"
      [] key = "fix"      -> "## Bug Fixes"
      [] key = "perf"     -> "## Performance Improvements"
      [] key = "docs"     -> "## Documentation"
      [] key = "build"    -> "## Build System"
      [] key = "ci"       -> "## CI/CD"
      [] key = "test"     -> "## Tests"
      [] key = "refactor" -> "## Code Refactoring"
      [] key = "style"    -> "## Code Style"
      [] key = "chore"    -> "## Chores"
      [] key = "other"    -> "## Other Changes"

OwnKeys == {commitTypes[i] : i \in 1..Len(commitTypes)}

\* the property names every object literal inherits from Object.prototype
\* that the header pattern's \w+ can spell
ObjectPrototypeKeys ==
    {"constructor", "toString", "valueOf", "hasOwnProperty", "isPrototypeOf",
     "propertyIsEnumerable", "toLocaleString", "__proto__"}

\* `type in commitTypes`: own and inherited properties
InCommitTypes(type) ==
    Len(type) = 1 /\ type[1] \in OwnKeys \cup ObjectPrototypeKeys

\* The body of parsedCommits.forEach: the key of the group the commit is
\* pushed to, or "TypeError" when commitTypes[type] is an inherited property,
\* whose .commits is undefined
CategoryOf(commit) ==
    IF commit.isBreaking THEN "breaking"
    ELSE IF InCommitTypes(commit.type)
         THEN IF commit.type[1] \in OwnKeys THEN commit.type[1] ELSE "TypeError"
         ELSE "other"

\* the groups as the latest invocation of generateReleaseNotes left them
LastGroups ==
    LET made == {n \in 1..Len(calls) : calls[n].fn = "generateReleaseNotes"}
    IN  IF made = {} THEN [key \in OwnKeys |-> <<>>]
        ELSE calls[CHOOSE n \in made : \A m \in made : m <= n].groups

\* InitialGroup as it would be if the commitTypes object were created once,
\* outside the function, and kept what earlier invocations pushed
InitialGroup_Shared(key) == LastGroups[key]

\* `commits: []` in the commitTypes literal, built anew by every invocation
InitialGroup(key) == <<>>

\* Group as it would be if each commit were put in front of its group
\* (unshift for push)
Group_NewestFirst(key, commits) ==
    LET pushed == SelectSeq(commits, LAMBDA c : CategoryOf(c) = key)
    IN  InitialGroup(key) \o [i \in 1..Len(pushed) |-> pushed[Len(pushed) + 1 - i]]

\* typeConfig.commits once forEach has run
Group(key, commits) ==
    InitialGroup(key) \o SelectSeq(commits, LAMBDA c : CategoryOf(c) = key)

\* The value null where a string is expected: not a string, so no token
\* sequence a message can spell
JsNull == <<"", "null">>

\* `${value}`
Interpolate(value) == IF value = JsNull THEN <<"null">> ELSE value

\* the value taken as a condition: the empty string and null are falsy
Truthy(value) == value # <<>> /\ value # JsNull

\* Bullet as it would be if the scope prefix were written for every commit
Bullet_ScopeAlways(commit) ==
    <<"- ", "**">> \o Interpolate(commit.scope) \o <<"**: ">> \o Interpolate(commit.description)
        \o <<" (">> \o Interpolate(commit.sha) \o <<")", NL>>

\* one bullet line, with its newline
Bullet(commit) ==
    LET scopeText == IF Truthy(commit.scope)
                     THEN <<"**">> \o Interpolate(commit.scope) \o <<"**: ">>
                     ELSE <<>>
    IN  <<"- ">> \o scopeText \o Interpolate(commit.description) \o <<" (">>
            \o Interpolate(commit.sha) \o <<")", NL>>

RECURSIVE Bullets(_)
Bullets(commits) ==
    IF commits = <<>> THEN <<>> ELSE Bullet(Head(commits)) \o Bullets(Tail(commits))

\* Section as it would be without the test on the group's length
Section_AlwaysHeading(key, commits) ==
    <<Title(key), NL, NL>> \o Bullets(Group(key, commits)) \o <<NL>>

Section(key, commits) ==
    IF Len(Group(key, commits)) > 0
    THEN <<Title(key), NL, NL>> \o Bullets(Group(key, commits)) \o <<NL>>
    ELSE <<>>

RECURSIVE Sections(_, _)
Sections(k, commits) ==
    IF k > Len(commitTypes) THEN <<>>
    ELSE Section(commitTypes[k], commits) \o Sections(k + 1, commits)

Fallback == "No significant changes in this release."

\* generateReleaseNotes as it would be if the fallback line were always added
generateReleaseNotes_AlwaysFallback(commits, version) ==
    IF \E i \in 1..Len(commits) : CategoryOf(commits[i]) = "TypeError"
    THEN [threw |-> TRUE, notes |-> <<>>]
    ELSE [threw |-> FALSE,
          notes |-> <<"# Release ">> \o version \o <<NL, NL>> \o Sections(1, commits)
                       \o <<Fallback, NL, NL>>]

\* generateReleaseNotes as it would be if the document started empty
generateReleaseNotes_NoTitle(commits, version) ==
    IF \E i \in 1..Len(commits) : CategoryOf(commits[i]) = "TypeError"
    THEN [threw |-> TRUE, notes |-> <<>>]
    ELSE LET hasAnyCommits == \E k \in 1..Len(commitTypes) : Len(Group(commitTypes[k], commits)) > 0
         IN  [threw |-> FALSE,
              notes |-> Sections(1, commits)
                           \o (IF ~hasAnyCommits THEN <<Fallback, NL, NL>> ELSE <<>>)]

\* the result: the document, or the exception thrown by the grouping loop
generateReleaseNotes(commits, version) ==
    IF \E i \in 1..Len(commits) : CategoryOf(commits[i]) = "TypeError"
    THEN [threw |-> TRUE, notes |-> <<>>]
    ELSE LET hasAnyCommits == \E k \in 1..Len(commitTypes) : Len(Group(commitTypes[k], commits)) > 0
         IN  [threw |-> FALSE,
              notes |-> <<"# Release ">> \o version \o <<NL, NL>> \o Sections(1, commits)
                           \o (IF ~hasAnyCommits THEN <<Fallback, NL, NL>> ELSE <<>>)]

\* `${version}`
VersionString(version) ==
    IF version.kind = "null" THEN <<"null">>
    ELSE IF version.kind = "garbage" THEN <<"garbage">>
    ELSE (IF version.v THEN <<"v">> ELSE <<>>)
            \o <<ToString(version.major), ".", ToString(version.minor), ".",
                 ToString(version.patch)>>

(***************************************************************************)
(* Specification of generateReleaseNotes called on its own: any list of at *)
(* most MaxNoteCommits commit records, the i-th with hash "c<i>".              *)
(***************************************************************************)
NoteTypes ==
    {<<"feat">>, <<"fix">>, <<"chore">>, <<"other">>, <<"deps">>, <<"breaking">>,
     <<"constructor">>}
NoteScopes == {<<>>, <<"core">>}
Hash(i) == <<"c" \o ToString(i)>>

\* every type with and without scope and breaking flag, and fix commits with
\* a null scope or an empty description
NoteShapes ==
    [type : NoteTypes, scope : NoteScopes, isBreaking : BOOLEAN, description : {<<"x">>}]
        \cup [type : {<<"fix">>}, scope : {JsNull}, isBreaking : {FALSE},
              description : {<<"x">>, <<>>}]
        \cup [type : {<<"fix">>}, scope : NoteScopes, isBreaking : {FALSE}, description : {<<>>}]

NoteCommit(shape, i) ==
    [sha |-> Hash(i), type |-> shape.type, scope |-> shape.scope,
     description |-> shape.description,
     body |-> <<>>, isBreaking |-> shape.isBreaking, fullMessage |-> <<>>]

NoteLists ==
    {[i \in 1..Len(shapes) |-> NoteCommit(shapes[i], i)] : shapes \in ListsOf(NoteShapes, MaxNoteCommits)}

InitNotes ==
    /\ rawCommit = <<>>
    /\ parsed = <<>>
    /\ parsedCommits \in NoteLists
    /\ currentVersion = <<>>
    /\ nextVersion = <<SemVer(FALSE, 1, 0, 0)>>
    /\ releaseNotes = <<>>
    /\ NoRun

GenerateReleaseNotes ==
    /\ pc = "idle"
    /\ releaseNotes = <<>>
    /\ releaseNotes' = <<generateReleaseNotes(parsedCommits, VersionString(nextVersion[1]))>>
    /\ UNCHANGED <<calls, releaseVars, parseVars, parsedCommits, currentVersion, nextVersion, runVars>>

NextNotes == GenerateReleaseNotes

SpecNotes == InitNotes /\ [][NextNotes]_vars

(***************************************************************************)
(* Reading a returned document back: its lines, the bullet lines, and the  *)
(* heading each bullet stands under.                                       *)
(***************************************************************************)
RECURSIVE SplitLines(_)
SplitLines(s) ==
    IF IndexOf(s, NL) = 0 THEN <<s>>
    ELSE <<SubSeq(s, 1, IndexOf(s, NL) - 1)>> \o SplitLines(Drop(s, IndexOf(s, NL) + 1))

Generated == releaseNotes # <<>>
Threw == releaseNotes[1].threw
NoteLines == IF Threw THEN <<>> ELSE SplitLines(releaseNotes[1].notes)

Titles == {Title(k) : k \in OwnKeys}
IsBulletLine(line) == Len(line) >= 1 /\ line[1] = "- "
IsHeadingLine(line) == Len(line) = 1 /\ line[1] \in Titles

BulletLines == {i \in 1..Len(NoteLines) : IsBulletLine(NoteLines[i])}

\* the bullet lines that carry the commit's hash
BulletsOf(commit) == {i \in BulletLines : Includes(NoteLines[i], commit.sha[1])}

\* the title of the nearest heading line above line i, "" when there is none
HeadingOver(i) ==
    LET above == {j \in 1..(i - 1) : IsHeadingLine(NoteLines[j])}
    IN  IF above = {} THEN ""
        ELSE NoteLines[CHOOSE j \in above : \A k \in above : k <= j][1]

\* the types with a heading of their own
NominalKeys == OwnKeys \ {"breaking"}
HasNominalHeading(commit) == Len(commit.type) = 1 /\ commit.type[1] \in NominalKeys

\* C9: every breaking commit is rendered under the Breaking Changes heading
\* and under no other heading, and every non-breaking commit of a type that
\* has a heading is rendered under that type's heading.
C9_BreakingOnlyUnderBreaking ==
    Generated =>
        \A n \in 1..Len(parsedCommits) :
            LET commit == parsedCommits[n]
            IN  /\ commit.isBreaking =>
                    /\ BulletsOf(commit) # {}
                    /\ \A i \in BulletsOf(commit) : HeadingOver(i) = Title("breaking")
                /\ (~commit.isBreaking /\ HasNominalHeading(commit)) =>
                    \E i \in BulletsOf(commit) : HeadingOver(i) = Title(commit.type[1])

\* What C9 says, on the calls that return a document
C9_WhenDocumentReturned == (Generated /\ ~Threw) => C9_BreakingOnlyUnderBreaking

\* C10: every commit of the list, whatever its type, is assigned to exactly
\* one category: the document has one bullet line per commit, and as many
\* bullet lines as there are commits.
C10_ExactlyOneCategory ==
    Generated =>
        /\ ~Threw
        /\ Cardinality(BulletLines) = Len(parsedCommits)
        /\ \A n \in 1..Len(parsedCommits) : Cardinality(BulletsOf(parsedCommits[n])) = 1

\* What C10 says, on the calls that return a document
C10_WhenDocumentReturned ==
    (Generated /\ ~Threw) =>
        /\ Cardinality(BulletLines) = Len(parsedCommits)
        /\ \A n \in 1..Len(parsedCommits) : Cardinality(BulletsOf(parsedCommits[n])) = 1

(***************************************************************************)
(* Properties of the returned document                                     *)
(***************************************************************************)
Returned == Generated /\ ~Threw

KnownTypes ==
    {<<"feat">>, <<"fix">>, <<"perf">>, <<"docs">>, <<"build">>, <<"ci">>, <<"test">>,
     <<"refactor">>, <<"style">>, <<"chore">>}

\* C11: every non-breaking commit whose type is none of the ten known
\* identifiers is rendered under the Other Changes heading and under no other.
C11_UnknownTypesUnderOther ==
    Generated =>
        \A n \in 1..Len(parsedCommits) :
            (~parsedCommits[n].isBreaking /\ parsedCommits[n].type \notin KnownTypes) =>
                /\ BulletsOf(parsedCommits[n]) # {}
                /\ \A i \in BulletsOf(parsedCommits[n]) : HeadingOver(i) = Title("other")

\* the titles in the order the claim fixes
FixedOrder ==
    <<"## Breaking Changes", "## New Features", "## Bug Fixes",
      "## Performance Improvements", "## Documentation", "## Build System", "## CI/CD",
      "## Tests", "## Code Refactoring", "## Code Style", "## Chores", "## Other Changes">>

\* the category of that title received a commit from the grouping loop
Received(title) ==
    \E k \in OwnKeys :
        /\ Title(k) = title
        /\ \E n \in 1..Len(parsedCommits) : CategoryOf(parsedCommits[n]) = k

\* the heading lines of the document, top to bottom
Headings ==
    LET lines == SelectSeq(NoteLines, IsHeadingLine)
    IN  [i \in 1..Len(lines) |-> lines[i][1]]

\* C12: the headings of a returned document are those of the categories that
\* received a commit, each once, in the fixed order.
C12_HeadingsInFixedOrder ==
    Returned => Headings = SelectSeq(FixedOrder, Received)

C12_Witness ==
    /\ Returned
    /\ Len(parsedCommits) = 2
    /\ parsedCommits[1].type = <<"chore">> /\ ~parsedCommits[1].isBreaking
    /\ parsedCommits[2].type = <<"feat">> /\ parsedCommits[2].isBreaking
    /\ Headings = <<"## Breaking Changes", "## Chores">>

HasFallback == \E i \in 1..Len(NoteLines) : NoteLines[i] = <<Fallback>>
NothingReceived == \A i \in 1..Len(FixedOrder) : ~Received(FixedOrder[i])

\* C13: a returned document has the fallback line exactly when no category
\* received a commit; it then has no heading, and a document with a bullet
\* has no fallback line.
C13_FallbackIffNothingReceived ==
    Returned =>
        /\ HasFallback <=> NothingReceived
        /\ HasFallback => \A i \in 1..Len(releaseNotes[1].notes) : releaseNotes[1].notes[i] \notin Titles
        /\ BulletLines # {} => ~HasFallback

C13_Witness ==
    /\ Returned
    /\ parsedCommits = <<>>
    /\ HasFallback
    /\ Headings = <<>>

(***************************************************************************)
(* getLatestReleaseData.  A date is a number of seconds since the epoch.   *)
(***************************************************************************)
\* semver.clean(tag): the version without its prefix, null when invalid
SemverClean(tag) ==
    IF tag.kind = "semver" THEN SemVer(FALSE, tag.major, tag.minor, tag.patch) ELSE Null

\* a || b on version strings: null is the only falsy one
OrElse(a, b) == IF a.kind = "null" THEN b ELSE a

Epoch == 0
NoReleaseData == [threw |-> FALSE, message |-> <<>>, currentReleaseDate |-> <<>>, currentReleaseTag |-> <<>>]

\* getLatestReleaseData as it would be if a release with an invalid tag were
\* taken for no release at all
getLatestReleaseData_NoReleaseWhenTagInvalid(response, defaultVersion) ==
    IF response.status = "ok"
    THEN IF response.created_at = <<>> \/ SemverClean(response.tag_name).kind = "null"
         THEN [NoReleaseData EXCEPT !.currentReleaseDate = <<Epoch>>,
                                    !.currentReleaseTag = <<defaultVersion>>]
         ELSE [NoReleaseData EXCEPT !.currentReleaseDate = response.created_at,
                                    !.currentReleaseTag = <<SemverClean(response.tag_name)>>]
    ELSE IF Includes(response.message, "Not Found")
         THEN [NoReleaseData EXCEPT !.currentReleaseDate = <<Epoch>>,
                                    !.currentReleaseTag = <<defaultVersion>>]
         ELSE [NoReleaseData EXCEPT !.threw = TRUE,
                                    !.message = <<"Failed to get latest release: ">> \o response.message]

\* getLatestReleaseData as it would be if the tag of a release without a
\* creation date were used
getLatestReleaseData_TagWhenNoDate(response, defaultVersion) ==
    IF response.status = "ok"
    THEN [NoReleaseData EXCEPT !.currentReleaseDate =
                                   IF response.created_at = <<>> THEN <<Epoch>>
                                   ELSE response.created_at,
                               !.currentReleaseTag =
                                   <<OrElse(SemverClean(response.tag_name), defaultVersion)>>]
    ELSE IF Includes(response.message, "Not Found")
         THEN [NoReleaseData EXCEPT !.currentReleaseDate = <<Epoch>>,
                                    !.currentReleaseTag = <<defaultVersion>>]
         ELSE [NoReleaseData EXCEPT !.threw = TRUE,
                                    !.message = <<"Failed to get latest release: ">> \o response.message]

getLatestReleaseData(response, defaultVersion) ==
    IF response.status = "ok"
    THEN IF response.created_at = <<>>
         THEN [NoReleaseData EXCEPT !.currentReleaseDate = <<Epoch>>,
                                    !.currentReleaseTag = <<defaultVersion>>]
         ELSE [NoReleaseData EXCEPT !.currentReleaseDate = response.created_at,
                                    !.currentReleaseTag =
                                        <<OrElse(SemverClean(response.tag_name), defaultVersion)>>]
    ELSE IF Includes(response.message, "Not Found")
         THEN [NoReleaseData EXCEPT !.currentReleaseDate = <<Epoch>>,
                                    !.currentReleaseTag = <<defaultVersion>>]
         ELSE [NoReleaseData EXCEPT !.threw = TRUE,
                                    !.message = <<"Failed to get latest release: ">> \o response.message]

(***************************************************************************)
(* getCommitsSinceDate                                                     *)
(***************************************************************************)
\* getCommitsSinceDate as it would be if a failed request were taken for an
\* empty history
getCommitsSinceDate_SwallowError(response) ==
    IF response.status = "ok"
    THEN [threw |-> FALSE, message |-> <<>>,
          parsedCommits |-> [i \in 1..Len(response.data) |-> ParseCommit(response.data[i])]]
    ELSE [threw |-> FALSE, message |-> <<>>, parsedCommits |-> <<>>]

getCommitsSinceDate(response) ==
    IF response.status = "ok"
    THEN [threw |-> FALSE, message |-> <<>>,
          parsedCommits |-> [i \in 1..Len(response.data) |-> ParseCommit(response.data[i])]]
    ELSE [threw |-> TRUE, message |-> <<"Failed to get commits: ">> \o response.message,
          parsedCommits |-> <<>>]

(***************************************************************************)
(* run, one action per step; an exception in any step is caught by run's   *)
(* catch, which calls core.setFailed.                                      *)
(***************************************************************************)
SetFailed(message) == failed' = <<<<"Action failed with error: ">> \o message>>

\* core.getInput('default-version') || '0.0.0'
defaultVersion == IF defaultVersionInput = <<>> THEN SemVer(FALSE, 0, 0, 0) ELSE defaultVersionInput[1]

LookupRelease ==
    /\ pc = "start"
    /\ LET r == getLatestReleaseData(latestRelease[1], defaultVersion)
       IN  IF r.threw
           THEN /\ pc' = "failed"
                /\ SetFailed(r.message)
                /\ UNCHANGED <<currentReleaseDate, currentReleaseTag>>
           ELSE /\ pc' = "lookedUp"
                /\ currentReleaseDate' = r.currentReleaseDate
                /\ currentReleaseTag' = r.currentReleaseTag
                /\ UNCHANGED failed
    /\ UNCHANGED <<calls, releaseVars, parseVars, coreVars, latestRelease, listCommits, defaultVersionInput,
                   shouldRelease, outputs>>

FetchCommits ==
    /\ pc = "lookedUp"
    /\ LET r == getCommitsSinceDate(listCommits[1])
       IN  IF r.threw
           THEN /\ pc' = "failed"
                /\ SetFailed(r.message)
                /\ UNCHANGED parsedCommits
           ELSE /\ pc' = "fetched"
                /\ parsedCommits' = r.parsedCommits
                /\ UNCHANGED failed
    /\ UNCHANGED <<calls, releaseVars, parseVars, currentVersion, nextVersion, releaseNotes, latestRelease,
                   listCommits, defaultVersionInput, currentReleaseDate, currentReleaseTag,
                   shouldRelease, outputs>>

\* CalcVersion as it would be if any commit at all were a reason to release
CalcVersion_ReleaseWhenCommits ==
    /\ pc = "fetched"
    /\ pc' = "versioned"
    /\ currentVersion' = currentReleaseTag
    /\ nextVersion' = <<calculateNextVersion(parsedCommits, currentReleaseTag[1])>>
    /\ shouldRelease' = <<Len(parsedCommits) > 0>>
    /\ UNCHANGED <<calls, releaseVars, parseVars, parsedCommits, releaseNotes, latestRelease, listCommits,
                   defaultVersionInput, currentReleaseDate, currentReleaseTag, outputs, failed>>

\* nextVersion = calculateNextVersion(parsedCommits, currentReleaseTag);
\* shouldRelease = nextVersion !== currentReleaseTag
CalcVersion ==
    /\ pc = "fetched"
    /\ pc' = "versioned"
    /\ currentVersion' = currentReleaseTag
    /\ nextVersion' = <<calculateNextVersion(parsedCommits, currentReleaseTag[1])>>
    /\ shouldRelease' = <<nextVersion'[1] # currentReleaseTag[1]>>
    /\ UNCHANGED <<calls, releaseVars, parseVars, parsedCommits, releaseNotes, latestRelease, listCommits,
                   defaultVersionInput, currentReleaseDate, currentReleaseTag, outputs, failed>>

\* GenNotes as it would be if the grouping loop took the commits out of the
\* list (shift) instead of reading them
GenNotes_EmptiesList ==
    /\ pc = "versioned"
    /\ LET r == generateReleaseNotes(parsedCommits, VersionString(nextVersion[1]))
       IN  /\ releaseNotes' = <<r>>
           /\ parsedCommits' = <<>>
           /\ IF r.threw
              THEN /\ pc' = "failed"
                   /\ SetFailed(<<"TypeError">>)
              ELSE /\ pc' = "noted"
                   /\ UNCHANGED failed
    /\ UNCHANGED <<calls, releaseVars, parseVars, currentVersion, nextVersion, latestRelease,
                   listCommits, defaultVersionInput, currentReleaseDate, currentReleaseTag,
                   shouldRelease, outputs>>

GenNotes ==
    /\ pc = "versioned"
    /\ LET r == generateReleaseNotes(parsedCommits, VersionString(nextVersion[1]))
       IN  /\ releaseNotes' = <<r>>
           /\ IF r.threw
              THEN /\ pc' = "failed"
                   /\ SetFailed(<<"TypeError">>)
              ELSE /\ pc' = "noted"
                   /\ UNCHANGED failed
    /\ UNCHANGED <<calls, releaseVars, parseVars, parsedCommits, currentVersion, nextVersion, latestRelease,
                   listCommits, defaultVersionInput, currentReleaseDate, currentReleaseTag,
                   shouldRelease, outputs>>

SetOutputs ==
    /\ pc = "noted"
    /\ pc' = "outputsSet"
    /\ outputs' = [next_version |-> nextVersion, should_release |-> shouldRelease,
                   release_notes |-> <<releaseNotes[1].notes>>]
    /\ UNCHANGED <<calls, releaseVars, parseVars, coreVars, latestRelease, listCommits, defaultVersionInput,
                   currentReleaseDate, currentReleaseTag, shouldRelease, failed>>

\* semver.major / minor / patch throw on a string that is not a version
WriteSummary ==
    /\ pc = "outputsSet"
    /\ IF currentReleaseTag[1].kind = "semver" /\ nextVersion[1].kind = "semver"
       THEN /\ pc' = "done"
            /\ UNCHANGED failed
       ELSE /\ pc' = "failed"
            /\ SetFailed(<<"TypeError">>)
    /\ UNCHANGED <<calls, releaseVars, parseVars, coreVars, latestRelease, listCommits, defaultVersionInput,
                   currentReleaseDate, currentReleaseTag, shouldRelease, outputs>>

(***************************************************************************)
(* Specification of run: any answer of the two API calls, any              *)
(* default-version input, at most MaxRunCommits commits since the release. *)
(***************************************************************************)
RunTypes == {"feat", "fix", "chore", "constructor"}

\* "<type>: x", "<type>!: x", "<type>: x (BREAKING CHANGE)" and
\* "<type>: x\n\nBREAKING CHANGE", plus an unknown type and a line that is
\* no conventional header
RunMessages ==
    UNION {{<<t, ":", " ", "x">>,
            <<t, "!", ":", " ", "x">>,
            <<t, ":", " ", "x", " ", "(", BC, ")">>,
            <<t, ":", " ", "x", NL, NL, BC>>} : t \in RunTypes}
        \cup {<<"deps", ":", " ", "x">>, <<"x", " ", "x">>}

RunSha(i) == <<"c" \o ToString(i), "b", "c", "d", "e", "f", "0", "1">>

RunCommitLists ==
    {[i \in 1..Len(ms) |-> [sha |-> RunSha(i), message |-> ms[i]]] :
        ms \in ListsOf(RunMessages, MaxRunCommits)}

ReleaseResponses ==
    {[status |-> "error", message |-> <<m>>, created_at |-> <<>>, tag_name |-> Null] :
        m \in {"Not Found", "Bad credentials"}}
    \cup {[status |-> "ok", message |-> <<>>, created_at |-> c, tag_name |-> t] :
            c \in {<<>>, <<5>>}, t \in {SemVer(TRUE, 1, 2, 3), Garbage}}

CommitResponses ==
    {[status |-> "error", message |-> <<"rate limit">>, data |-> <<>>]}
    \cup {[status |-> "ok", message |-> <<>>, data |-> l] : l \in RunCommitLists}

DefaultInputs == {<<>>, <<SemVer(TRUE, 0, 4, 0)>>, <<Garbage>>}

Init ==
    /\ rawCommit = <<>>
    /\ parsed = <<>>
    /\ parsedCommits = <<>>
    /\ currentVersion = <<>>
    /\ nextVersion = <<>>
    /\ releaseNotes = <<>>
    /\ pc = "start"
    /\ latestRelease \in {<<r>> : r \in ReleaseResponses}
    /\ listCommits \in {<<r>> : r \in CommitResponses}
    /\ defaultVersionInput \in DefaultInputs
    /\ currentReleaseDate = <<>>
    /\ currentReleaseTag = <<>>
    /\ shouldRelease = <<>>
    /\ outputs = NoOutputs
    /\ failed = <<>>
    /\ calls = <<>>
    /\ NoRelease

Next ==
    \/ LookupRelease
    \/ FetchCommits
    \/ CalcVersion
    \/ GenNotes
    \/ SetOutputs
    \/ WriteSummary

Spec == Init /\ [][Next]_vars

(***************************************************************************)
(* Properties of run                                                       *)
(***************************************************************************)
NoVersionImpact == ~AnyBreaking /\ ~AnyOfType(<<"feat">>) /\ ~AnyOfType(<<"fix">>)

\* C4: a list with no breaking, no feat and no fix commit, the empty list
\* included, leaves the version unchanged and the release decision is false.
C4_NeutralCommitsNoRelease ==
    (Called /\ NoVersionImpact) => (nxt = cur /\ shouldRelease = <<FALSE>>)

C4_Witness ==
    /\ Called /\ NoVersionImpact
    /\ Len(parsedCommits) = 2
    /\ parsedCommits[1].type = <<"chore">>
    /\ parsedCommits[2].type = <<"deps">>
    /\ nxt = cur /\ shouldRelease = <<FALSE>>

\* C5: for a current version that is a version string, the should-release
\* output is true exactly when the next version and the current version
\* differ as (major, minor, patch) tuples.
C5_ShouldReleaseIffVersionDiffers ==
    (outputs.should_release # <<>> /\ cur.kind = "semver")
        => (outputs.should_release[1] <=> (Triple(nxt) # Triple(cur)))

C5_Witness ==
    /\ outputs.should_release = <<FALSE>>
    /\ cur.kind = "semver" /\ cur.v
    /\ Len(parsedCommits) = 2

\* the raw commits that run fetched
Fetched == listCommits[1].data

C8_BreakingEndToEnd ==
    (Generated /\ cur.kind = "semver")
        => \A n \in 1..Len(parsedCommits) :
              parsedCommits[n].isBreaking =>
                  /\ Triple(nxt) = <<cur.major + 1, 0, 0>>
                  /\ BulletsOf(parsedCommits[n]) # {}
                  /\ \A i \in BulletsOf(parsedCommits[n]) : HeadingOver(i) = Title("breaking")

\* What C8 says, on the runs whose notes are generated
C8_WhenDocumentReturned == (Generated /\ ~Threw) => C8_BreakingEndToEnd

\* the commits whose hash the line carries in its parentheses
CommitsOfLine(line) ==
    {n \in 1..Len(parsedCommits) :
        Len(line) >= 3 /\ <<line[Len(line) - 1]>> = parsedCommits[n].sha}

\* "- ", then "**scope**: " exactly when the scope is neither empty nor null,
\* then the description, then " (hash)"
BulletForm(commit) ==
    <<"- ">>
        \o (IF commit.scope # <<>> /\ commit.scope # JsNull
            THEN <<"**">> \o commit.scope \o <<"**: ">>
            ELSE <<>>)
        \o commit.description \o <<" (">> \o commit.sha \o <<")">>

\* C15: every bullet of a returned document is the bullet form of one commit
\* of the list, and every commit of the list, also one with an empty
\* description, has its bullet.
C15_BulletForm ==
    Returned =>
        /\ \A i \in BulletLines :
              \E n \in CommitsOfLine(NoteLines[i]) : NoteLines[i] = BulletForm(parsedCommits[n])
        /\ \A n \in 1..Len(parsedCommits) :
              \E i \in BulletLines : NoteLines[i] = BulletForm(parsedCommits[n])

C15_Witness ==
    /\ Returned
    /\ Len(parsedCommits) = 2
    /\ parsedCommits[1].scope = JsNull /\ parsedCommits[1].description = <<>>
    /\ parsedCommits[2].scope = <<"core">>
    /\ \E i \in BulletLines : NoteLines[i] = <<"- ", " (", "c1", ")">>
    /\ \E i \in BulletLines : NoteLines[i] = <<"- ", "**", "core", "**: ", "x", " (", "c2", ")">>

\* the lines of the document that are not empty
TextLines == SelectSeq(NoteLines, LAMBDA line : line # <<>>)

\* C14 as stated: for an empty commit list the notes are the fallback line.
C14_EmptyListNotesAreFallbackLine ==
    (Returned /\ parsedCommits = <<>>) => TextLines = <<<<Fallback>>>>

\* C14 as amended: for an empty commit list the notes are the release title
\* line with the version, an empty line, the fallback line and an empty line.
C14_EmptyListNotesAreTitleAndFallback ==
    (Returned /\ parsedCommits = <<>>) =>
        releaseNotes[1].notes =
            <<"# Release ">> \o VersionString(nxt) \o <<NL, NL, Fallback, NL, NL>>

C14_Witness ==
    /\ Returned /\ parsedCommits = <<>>
    /\ pc = "done"
    /\ cur = SemVer(TRUE, 0, 4, 0)
    /\ outputs.release_notes =
           <<<<"# Release ", "v", "0", ".", "4", ".", "0", NL, NL, Fallback, NL, NL>>>>


(***************************************************************************)
(* calculateNextVersion and the order of the commits                       *)
(***************************************************************************)
\* the list with its commits in the order the permutation gives
Permuted(commits, perm) == [i \in 1..Len(commits) |-> commits[perm[i]]]

Reorderings(commits) == {Permuted(commits, perm) : perm \in Permutations(1..Len(commits))}

\* C16: the version calculateNextVersion returned for the list is the version
\* it returns for every reordering of the list.
C16_OrderOfCommitsIrrelevant ==
    Called => \A commits \in Reorderings(parsedCommits) :
                  calculateNextVersion(commits, cur) = nxt

\* a list whose last commit alone would give a patch bump, and whose
\* reversal ends in the breaking commit
C16_Witness ==
    /\ Called
    /\ Len(parsedCommits) = 3
    /\ parsedCommits[1].isBreaking
    /\ parsedCommits[2].type = <<"feat">> /\ ~parsedCommits[2].isBreaking
    /\ parsedCommits[3].type = <<"fix">> /\ ~parsedCommits[3].isBreaking
    /\ cur = SemVer(TRUE, 1, 1, 1)
    /\ nxt = SemVer(FALSE, 2, 0, 0)


(***************************************************************************)
(* Specification of a caller that invokes calculateNextVersion and         *)
(* generateReleaseNotes one after the other, at most MaxCalls times, each  *)
(* time on a list of at most MaxCallCommits commits and a version.         *)
(***************************************************************************)
MaxCalls == 3
MaxCallCommits == 1

CallCommits ==
    {[sha |-> <<"c1">>, type |-> <<"feat">>, scope |-> <<"core">>, description |-> <<"x">>,
      body |-> <<>>, isBreaking |-> FALSE, fullMessage |-> <<>>],
     [sha |-> <<"c2">>, type |-> <<"fix">>, scope |-> <<>>, description |-> <<"x">>,
      body |-> <<>>, isBreaking |-> FALSE, fullMessage |-> <<>>]}

CallLists == ListsOf(CallCommits, MaxCallCommits)

CallVersions == {SemVer(FALSE, 1, 0, 0), SemVer(TRUE, 0, 1, 1)}

InitCalls ==
    /\ rawCommit = <<>>
    /\ parsed = <<>>
    /\ parsedCommits = <<>>
    /\ currentVersion = <<>>
    /\ nextVersion = <<>>
    /\ releaseNotes = <<>>
    /\ NoRun

CallGenerateReleaseNotes ==
    /\ pc = "idle"
    /\ Len(calls) < MaxCalls
    /\ \E commits \in CallLists, version \in CallVersions :
          calls' = Append(calls,
                       [fn |-> "generateReleaseNotes", commits |-> commits, version |-> version,
                        groups |-> [key \in OwnKeys |-> Group(key, commits)],
                        result |-> generateReleaseNotes(commits, VersionString(version))])
    /\ UNCHANGED <<parseVars, coreVars, runVars, releaseVars>>

CallCalculateNextVersion ==
    /\ pc = "idle"
    /\ Len(calls) < MaxCalls
    /\ \E commits \in CallLists, version \in CallVersions :
          calls' = Append(calls,
                       [fn |-> "calculateNextVersion", commits |-> commits, version |-> version,
                        groups |-> [key \in OwnKeys |-> <<>>],
                        result |-> calculateNextVersion(commits, version)])
    /\ UNCHANGED <<parseVars, coreVars, runVars, releaseVars>>

NextCalls == CallGenerateReleaseNotes \/ CallCalculateNextVersion

SpecCalls == InitCalls /\ [][NextCalls]_vars

\* the hashes a list of commits carries
ShasOf(commits) == {commits[n].sha : n \in 1..Len(commits)}

\* the hashes written in a document
ShasIn(notes) == {<<notes[k]>> : k \in 1..Len(notes)} \cap {c.sha : c \in CallCommits}

\* C17: two invocations of the same function on the same list and version
\* returned the same result, whatever was invoked in between, and the notes
\* of an invocation carry the hashes of its own list and of no other.
C17_NoStateBetweenCalls ==
    /\ \A i, j \in 1..Len(calls) :
          (/\ calls[i].fn = calls[j].fn
           /\ calls[i].commits = calls[j].commits
           /\ calls[i].version = calls[j].version) => calls[i].result = calls[j].result
    /\ \A j \in 1..Len(calls) :
          calls[j].fn = "generateReleaseNotes" =>
              ShasIn(calls[j].result.notes) = ShasOf(calls[j].commits)

\* the same list rendered twice with another list rendered in between
C17_Witness ==
    /\ Len(calls) = 3
    /\ \A n \in 1..3 : calls[n].fn = "generateReleaseNotes"
    /\ ShasOf(calls[1].commits) = {<<"c1">>}
    /\ ShasOf(calls[2].commits) = {<<"c2">>}
    /\ calls[3].commits = calls[1].commits /\ calls[3].version = calls[1].version
    /\ ShasIn(calls[3].result.notes) = {<<"c1">>}


(***************************************************************************)
(* Failures                                                                *)
(***************************************************************************)
\* C18: for every fetched list of commits and every valid current version,
\* parsing, calculateNextVersion and generateReleaseNotes all return: no
\* exception leaves generateReleaseNotes, a header the pattern does not match
\* gives type other, and the empty list gives the unchanged version and the
\* fallback notes.
C18_CoreNeverThrows ==
    (Generated /\ cur.kind = "semver") =>
        /\ ~Threw
        /\ \A n \in 1..Len(parsedCommits) :
              conventionalCommitRegex(FirstLine(Fetched[n].message)) = NoMatch
                  => parsedCommits[n].type = <<"other">>
        /\ parsedCommits = <<>> => (nxt = cur /\ HasFallback)


\* the lookup failed for another reason than "no release found"
LookupFailed ==
    latestRelease[1].status = "error" /\ ~Includes(latestRelease[1].message, "Not Found")

\* the commit fetch was reached and failed
FetchFailed == ~LookupFailed /\ listCommits[1].status = "error"

AllOutputsSet ==
    outputs.next_version # <<>> /\ outputs.should_release # <<>> /\ outputs.release_notes # <<>>

\* C19: once the lookup has failed for another reason than "no release
\* found", or the commit fetch has failed, run is marked failed with the
\* message that names the stage and no output is set; a run that reaches its
\* end with no breaking, feat or fix commit is not marked failed and has all
\* three outputs set, should-release being false.
C19_FailuresSurfacedNoChangesNot ==
    /\ (LookupFailed /\ pc # "start") =>
          /\ pc = "failed"
          /\ failed = <<<<"Action failed with error: ", "Failed to get latest release: ">>
                            \o latestRelease[1].message>>
          /\ outputs = NoOutputs
    /\ (FetchFailed /\ pc \notin {"start", "lookedUp"}) =>
          /\ pc = "failed"
          /\ failed = <<<<"Action failed with error: ", "Failed to get commits: ">>
                            \o listCommits[1].message>>
          /\ outputs = NoOutputs
    /\ (pc = "done" /\ NoVersionImpact) =>
          /\ failed = <<>>
          /\ AllOutputsSet
          /\ outputs.should_release = <<FALSE>>

\* the release is found and the commit fetch is refused
C19_Witness ==
    /\ pc = "failed"
    /\ latestRelease[1].status = "ok" /\ latestRelease[1].created_at = <<5>>
    /\ FetchFailed
    /\ failed = <<<<"Action failed with error: ", "Failed to get commits: ", "rate limit">>>>
    /\ outputs = NoOutputs


\* the lookup reports no release, or a release without a creation date
NoPreviousRelease ==
    \/ latestRelease[1].status = "error" /\ Includes(latestRelease[1].message, "Not Found")
    \/ latestRelease[1].status = "ok" /\ latestRelease[1].created_at = <<>>

\* C20: when there is no previous release the lookup does not fail: the
\* current version is the default-version input, 0.0.0 when the input is not
\* set, whatever tag the response carries, and the baseline date is the epoch.
C20_NoPreviousReleaseGivesDefault ==
    (NoPreviousRelease /\ pc # "start") =>
        /\ currentReleaseTag = <<defaultVersion>>
        /\ defaultVersionInput = <<>> => currentReleaseTag = <<SemVer(FALSE, 0, 0, 0)>>
        /\ defaultVersionInput # <<>> => currentReleaseTag = defaultVersionInput
        /\ currentReleaseDate = <<Epoch>>
        /\ failed # <<>> => failed[1][2] # "Failed to get latest release: "

\* a release without creation date whose tag is a valid version
C20_Witness ==
    /\ pc = "lookedUp"
    /\ latestRelease[1].status = "ok" /\ latestRelease[1].created_at = <<>>
    /\ latestRelease[1].tag_name = SemVer(TRUE, 1, 2, 3)
    /\ defaultVersionInput = <<>>
    /\ currentReleaseTag = <<SemVer(FALSE, 0, 0, 0)>>
    /\ currentReleaseDate = <<Epoch>>
    /\ failed = <<>>


(***************************************************************************)
(* The release action: the composite action's steps, and main of           *)
(* release.mjs, which does the same from one script.  Only the steps that  *)
(* decide about the release are modelled; the steps that count commits and *)
(* write the job summary change none of the variables below.               *)
(***************************************************************************)
\* `svu current || echo none`
NoneVersion == [kind |-> "none", v |-> FALSE, major |-> 0, minor |-> 0, patch |-> 0]

ReleaseUrl(tag) == <<"https://github.com/", "owner/repo", "/releases/tag/">> \o VersionString(tag)

\* outputs.release_url:
\* steps.create-release.outputs.release_url || steps.dry-run-summary.outputs.release_url
ReleaseUrlOutput ==
    IF stepOutputs.create_release # <<>> /\ stepOutputs.create_release[1] # <<>>
    THEN stepOutputs.create_release[1]
    ELSE IF stepOutputs.dry_run_summary # <<>> THEN stepOutputs.dry_run_summary[1]
    ELSE <<>>

\* step "Determine next version"
StepDetermineVersion ==
    /\ relPc = "determine-version"
    /\ relPc' = "generate-notes"
    /\ env' = [env EXCEPT !.RELEASE_TAG = <<svu.next>>,
                          !.CURRENT_VERSION = <<svu.current>>,
                          !.NO_CHANGES = IF svu.current = svu.next THEN "true" ELSE "false"]
    /\ UNCHANGED <<parseVars, coreVars, runVars, calls, actionInputs, svu, gitLog, createAnswer,
                   stepOutputs, releases>>

\* step "Generate release notes"
StepGenerateNotes ==
    /\ relPc = "generate-notes"
    /\ relPc' = "create-release"
    /\ IF env.NO_CHANGES # "true"
       THEN env' = [env EXCEPT !.RELEASE_NOTES = <<gitLog>>]
       ELSE UNCHANGED env
    /\ UNCHANGED <<parseVars, coreVars, runVars, calls, actionInputs, svu, gitLog, createAnswer,
                   stepOutputs, releases>>

\* StepCreateRelease as it would be without the dry-run condition
StepCreateRelease_IgnoreDryRun ==
    /\ relPc = "create-release"
    /\ IF env.NO_CHANGES # "true"
       THEN IF createAnswer = "ok"
            THEN /\ releases' = Append(releases,
                                    [tag_name |-> env.RELEASE_TAG[1], name |-> env.RELEASE_TAG[1],
                                     body |-> env.RELEASE_NOTES[1],
                                     draft |-> actionInputs.draft = "true"])
                 /\ stepOutputs' = [stepOutputs EXCEPT
                                        !.create_release = <<ReleaseUrl(env.RELEASE_TAG[1])>>]
                 /\ relPc' = "dry-run-summary"
            ELSE /\ relPc' = "failed"
                 /\ UNCHANGED <<releases, stepOutputs>>
       ELSE /\ relPc' = "dry-run-summary"
            /\ UNCHANGED <<releases, stepOutputs>>
    /\ UNCHANGED <<parseVars, coreVars, runVars, calls, actionInputs, svu, gitLog, createAnswer,
                   env>>

\* step "Create GitHub Release":
\* if: inputs.dry-run != 'true' && env.NO_CHANGES != 'true'; a failing
\* `gh release create` fails the step and the steps after it do not run
StepCreateRelease ==
    /\ relPc = "create-release"
    /\ IF actionInputs.dry_run # "true" /\ env.NO_CHANGES # "true"
       THEN IF createAnswer = "ok"
            THEN /\ releases' = Append(releases,
                                    [tag_name |-> env.RELEASE_TAG[1], name |-> env.RELEASE_TAG[1],
                                     body |-> env.RELEASE_NOTES[1],
                                     draft |-> actionInputs.draft = "true"])
                 /\ stepOutputs' = [stepOutputs EXCEPT
                                        !.create_release = <<ReleaseUrl(env.RELEASE_TAG[1])>>]
                 /\ relPc' = "dry-run-summary"
            ELSE /\ relPc' = "failed"
                 /\ UNCHANGED <<releases, stepOutputs>>
       ELSE /\ relPc' = "dry-run-summary"
            /\ UNCHANGED <<releases, stepOutputs>>
    /\ UNCHANGED <<parseVars, coreVars, runVars, calls, actionInputs, svu, gitLog, createAnswer,
                   env>>

\* step "Dry Run Summary":
\* if: inputs.dry-run == 'true' && env.NO_CHANGES != 'true'
StepDryRunSummary ==
    /\ relPc = "dry-run-summary"
    /\ relPc' = "done"
    /\ IF actionInputs.dry_run = "true" /\ env.NO_CHANGES # "true"
       THEN stepOutputs' = [stepOutputs EXCEPT !.dry_run_summary = <<<<>>>>]
       ELSE UNCHANGED stepOutputs
    /\ UNCHANGED <<parseVars, coreVars, runVars, calls, actionInputs, svu, gitLog, createAnswer,
                   env, releases>>


\* main of release.mjs; its locals nextVersion, currentVersion and notes are
\* kept in the entries RELEASE_TAG, CURRENT_VERSION and RELEASE_NOTES
determineVersion ==
    /\ relPc = "main:determineVersion"
    /\ relPc' = "main:analyzeCommits"
    /\ env' = [env EXCEPT !.RELEASE_TAG = <<svu.next>>, !.CURRENT_VERSION = <<svu.current>>]
    /\ UNCHANGED <<parseVars, coreVars, runVars, calls, actionInputs, svu, gitLog, createAnswer,
                   stepOutputs, releases>>

analyzeCommits ==
    /\ relPc = "main:analyzeCommits"
    /\ relPc' = "main:release"
    /\ env' = [env EXCEPT !.RELEASE_NOTES = <<gitLog>>]
    /\ UNCHANGED <<parseVars, coreVars, runVars, calls, actionInputs, svu, gitLog, createAnswer,
                   stepOutputs, releases>>

\* isDryRun = process.env.DRY_RUN === "true"; createRelease catches the
\* error of the request and calls core.setFailed
createRelease ==
    /\ relPc = "main:release"
    /\ relPc' = "done"
    /\ IF actionInputs.dry_run # "true"
       THEN IF createAnswer = "ok"
            THEN /\ releases' = Append(releases,
                                    [tag_name |-> env.RELEASE_TAG[1], name |-> env.RELEASE_TAG[1],
                                     body |-> env.RELEASE_NOTES[1], draft |-> FALSE])
                 /\ UNCHANGED failed
            ELSE /\ failed' = <<<<"Failed to create release: ", "error">>>>
                 /\ UNCHANGED releases
       ELSE UNCHANGED <<releases, failed>>
    /\ UNCHANGED <<parseVars, coreVars, calls, pc, latestRelease, listCommits, defaultVersionInput,
                   currentReleaseDate, currentReleaseTag, shouldRelease, outputs,
                   actionInputs, svu, gitLog, createAnswer, env, stepOutputs>>

(***************************************************************************)
(* Specification of the release action: either entry point, any dry-run    *)
(* and draft input, any answer of svu, git log and the release request.    *)
(***************************************************************************)
SvuVersions == {SemVer(TRUE, 1, 0, 0), SemVer(TRUE, 1, 1, 0)}

InitRelease ==
    /\ rawCommit = <<>>
    /\ parsed = <<>>
    /\ parsedCommits = <<>>
    /\ currentVersion = <<>>
    /\ nextVersion = <<>>
    /\ releaseNotes = <<>>
    /\ pc = "idle"
    /\ latestRelease = <<>>
    /\ listCommits = <<>>
    /\ defaultVersionInput = <<>>
    /\ currentReleaseDate = <<>>
    /\ currentReleaseTag = <<>>
    /\ shouldRelease = <<>>
    /\ outputs = NoOutputs
    /\ failed = <<>>
    /\ calls = <<>>
    /\ relPc \in {"determine-version", "main:determineVersion"}
    /\ actionInputs \in [dry_run : {"true", "false", ""}, draft : {"true", "false"}]
    /\ svu \in [current : {NoneVersion, SemVer(TRUE, 1, 0, 0)}, next : SvuVersions]
    /\ gitLog \in {<<>>, <<"* ", "feat", ":", " ", "x", " (", "c1", ")">>}
    /\ createAnswer \in {"ok", "error"}
    /\ env = NoEnv
    /\ stepOutputs = NoStepOutputs
    /\ releases = <<>>

NextRelease ==
    \/ StepDetermineVersion
    \/ StepGenerateNotes
    \/ StepCreateRelease
    \/ StepDryRunSummary
    \/ determineVersion
    \/ analyzeCommits
    \/ createRelease

SpecRelease == InitRelease /\ [][NextRelease]_vars

DryRunMode == actionInputs.dry_run = "true"

\* the one release created carries the next version and the notes
ReleaseCreated ==
    /\ Len(releases) = 1
    /\ releases[1].tag_name = svu.next
    /\ releases[1].body = gitLog

LacksTypePrefix(line) == line = <<>> \/ ~IsWord(line[1]) \/ IndexOf(line, ":") = 0

\* C22: a first line without `type:` prefix does not match the pattern, and
\* for every first line that does not match the record has type other, an
\* empty scope, the whole first line as description, and is breaking only
\* if the message contains BREAKING CHANGE.
C22_NoMatchDegradesToOther ==
    Parsed =>
        LET line == FirstLine(rawCommit.message)
        IN  /\ LacksTypePrefix(line) => ~conventionalCommitRegex(line).matched
            /\ ~conventionalCommitRegex(line).matched =>
                  /\ parsed[1].type = <<"other">>
                  /\ parsed[1].scope = <<>>
                  /\ parsed[1].description = line
                  /\ parsed[1].isBreaking <=> Includes(rawCommit.message, BC)

\* "fix(x) x": the colon after the type is missing
C22_Witness ==
    /\ Parsed
    /\ rawCommit.message = <<"fix", "(", "x", ")", " ">>
    /\ parsed[1].type = <<"other">>
    /\ parsed[1].scope = <<>>
    /\ parsed[1].description = <<"fix", "(", "x", ")", " ">>
    /\ ~parsed[1].isBreaking


\* the text between the type and the colon, read as optional "(scope)"
\* and optional "!": the scope non-empty and free of ")"
Between(mid) ==
    LET bang == Len(mid) >= 1 /\ mid[Len(mid)] = "!"
        par  == IF bang THEN SubSeq(mid, 1, Len(mid) - 1) ELSE mid
    IN  [ok    |-> \/ par = <<>>
                   \/ /\ Len(par) >= 3
                      /\ par[1] = "(" /\ par[Len(par)] = ")"
                      /\ \A k \in 2..(Len(par) - 1) : par[k] # ")",
         scope |-> IF par = <<>> THEN <<>> ELSE SubSeq(par, 2, Len(par) - 1),
         bang  |-> bang]

\* the text without its leading whitespace, of which the last character
\* stays when there is nothing else
AfterWhitespace(text) ==
    IF \A k \in 1..Len(text) : IsSpace(text[k]) THEN <<text[Len(text)]>>
    ELSE Drop(text, CHOOSE k \in 1..Len(text) :
                        ~IsSpace(text[k]) /\ \A m \in 1..(k - 1) : IsSpace(text[m]))

\* the ways to read the line as identifier, optional (scope), optional "!",
\* colon and a non-empty text: the identifier ends at t, the colon is at c
HeaderReadings(line) ==
    {cut \in (1..Len(line)) \X (1..Len(line)) :
        /\ cut[1] < cut[2] /\ cut[2] < Len(line)
        /\ line[cut[2]] = ":"
        /\ \A k \in 1..cut[1] : IsWord(line[k])
        /\ Between(SubSeq(line, cut[1] + 1, cut[2] - 1)).ok}

\* C23: when the first line reads as identifier, optional (scope), optional
\* "!", colon, text, the record has the identifier as type, the text inside
\* the parentheses (or the empty string) as scope, and the text after the
\* colon and its whitespace as description.
C23_MatchedHeaderFields ==
    Parsed =>
        LET line == FirstLine(rawCommit.message)
        IN  \A cut \in HeaderReadings(line) :
               LET mid == Between(SubSeq(line, cut[1] + 1, cut[2] - 1))
               IN  /\ parsed[1].type = SubSeq(line, 1, cut[1])
                   /\ parsed[1].scope = mid.scope
                   /\ parsed[1].description = AfterWhitespace(Drop(line, cut[2] + 1))

\* "x(x/x)!: x": an identifier outside the vocabulary and a scope of two
\* path segments
C23_Witness ==
    /\ Parsed
    /\ rawCommit.message = <<"x", "(", "x", "/", "x", ")", "!", ":", " ", "x">>
    /\ parsed[1].type = <<"x">>
    /\ parsed[1].scope = <<"x", "/", "x">>
    /\ parsed[1].description = <<"x">>


(***************************************************************************)
(* More properties of the returned document                                *)
(***************************************************************************)
\* C24: of two bullets under the same heading, the upper one belongs to the
\* commit that comes first in the list.
C24_BulletsInInputOrder ==
    Returned =>
        \A i, j \in BulletLines :
            (i < j /\ HeadingOver(i) = HeadingOver(j)) =>
                \A n \in CommitsOfLine(NoteLines[i]), m \in CommitsOfLine(NoteLines[j]) : n < m

\* two fixes, the second with a scope
C24_Witness ==
    /\ Returned
    /\ Len(parsedCommits) = 2
    /\ parsedCommits[1].type = <<"fix">> /\ ~parsedCommits[1].isBreaking
    /\ parsedCommits[2].type = <<"fix">> /\ ~parsedCommits[2].isBreaking
    /\ parsedCommits[2].scope = <<"core">>
    /\ \E i, j \in BulletLines :
          /\ i < j /\ HeadingOver(i) = Title("fix") /\ HeadingOver(j) = Title("fix")
          /\ CommitsOfLine(NoteLines[i]) = {1} /\ CommitsOfLine(NoteLines[j]) = {2}


(***************************************************************************)
(* More properties of run                                                  *)
(***************************************************************************)
\* the lookup found a release with a creation date
ReleaseFound == latestRelease[1].status = "ok" /\ latestRelease[1].created_at # <<>>

LookedUp == pc \notin {"start", "idle"}

\* C25: for a release with a creation date the lookup returns that date
\* plus one second, and the release tag without its "v".
C25_DateIsCreationPlusOneSecond ==
    (LookedUp /\ ReleaseFound /\ latestRelease[1].tag_name.kind = "semver") =>
        /\ currentReleaseDate = <<latestRelease[1].created_at[1] + 1>>
        /\ currentReleaseTag = <<[latestRelease[1].tag_name EXCEPT !.v = FALSE]>>

\* C26: for a release whose tag is no version the lookup returns the default
\* version, and a date taken from the release's creation date, not the epoch.
C26_InvalidTagKeepsReleaseDate ==
    (LookedUp /\ ReleaseFound /\ latestRelease[1].tag_name.kind # "semver") =>
        /\ currentReleaseTag = <<defaultVersion>>
        /\ currentReleaseDate # <<Epoch>>
        /\ currentReleaseDate[1] >= latestRelease[1].created_at[1]
        /\ currentReleaseDate[1] <= latestRelease[1].created_at[1] + 1

C26_Witness ==
    /\ pc = "lookedUp"
    /\ ReleaseFound
    /\ latestRelease[1].tag_name = Garbage
    /\ defaultVersionInput = <<SemVer(TRUE, 0, 4, 0)>>
    /\ currentReleaseTag = <<SemVer(TRUE, 0, 4, 0)>>
    /\ currentReleaseDate = latestRelease[1].created_at

\* C27: the current version handed to calculateNextVersion carries no "v",
\* and neither does the next-version output.
C27_VersionsNormalized ==
    /\ (Called /\ cur.kind = "semver") => ~cur.v
    /\ (outputs.next_version # <<>> /\ outputs.next_version[1].kind = "semver")
          => ~outputs.next_version[1].v


\* C28: once calculateNextVersion, and then generateReleaseNotes, have been
\* called on the parsed list, the list still has the commits the parser
\* returned, in their order and with their field values.
C28_InputsUnchanged ==
    Called => parsedCommits = [i \in 1..Len(Fetched) |-> ParseCommit(Fetched[i])]

\* both functions have been called on a list of two commits
C28_Witness ==
    /\ pc = "noted"
    /\ Generated /\ ~Threw
    /\ Len(Fetched) = 2
    /\ Len(parsedCommits) = 2
    /\ parsedCommits[1].type = <<"feat">> /\ parsedCommits[1].sha = ShortSha(RunSha(1))
    /\ parsedCommits[2].type = <<"fix">> /\ parsedCommits[2].sha = ShortSha(RunSha(2))


\* C29: the document has the Breaking Changes heading exactly when
\* calculateNextVersion, on the same list, bumps the major version, and a
\* bullet under that heading belongs to a commit whose isBreaking is true.
C29_BreakingHeadingIffMajorBump ==
    Generated =>
        /\ ~Threw
        /\ (\E i \in 1..Len(Headings) : Headings[i] = Title("breaking"))
              <=> calculateNextVersion(parsedCommits, SemVer(FALSE, 1, 2, 3))
                      = SemVer(FALSE, 2, 0, 0)
        /\ \A i \in BulletLines :
              HeadingOver(i) = Title("breaking") =>
                  \A n \in CommitsOfLine(NoteLines[i]) : parsedCommits[n].isBreaking

\* What C29 says, on the lists with no commit of type breaking or of a type
\* inherited from Object.prototype
C29_WithoutBreakingType ==
    (\A n \in 1..Len(parsedCommits) :
        parsedCommits[n].type \notin {<<"breaking">>, <<"constructor">>})
        => C29_BreakingHeadingIffMajorBump


\* the steps of run up to the setting of the outputs, each after the one
\* before it, the outputs only after a lookup and a fetch that succeeded
C30_StepsInOrder ==
    /\ parsedCommits # <<>> => currentReleaseTag # <<>>
    /\ Called => (currentReleaseTag # <<>> /\ listCommits[1].status = "ok")
    /\ Generated => Called
    /\ outputs # NoOutputs =>
          /\ Generated /\ ~Threw /\ AllOutputsSet
          /\ ~LookupFailed /\ ~FetchFailed
    /\ pc = "done" => outputs # NoOutputs

\* C30: the steps of run occur in the order lookup, fetch, version, notes,
\* outputs, summary; the outputs are set only after the lookup and the fetch
\* have succeeded; and a run that is marked failed has set no output.
C30_OrderedAndNoOutputsOnFailure ==
    /\ C30_StepsInOrder
    /\ failed # <<>> => outputs = NoOutputs

====
